---- MODULE Spec2Model ----
(***************************************************************************)
(* Model of pdf_batch_processor.py: the outline (bookmark) visibility      *)
(* walk (collapse_child_bookmarks / process_bookmarks), the metadata       *)
(* scrubber (remove_metadata), the per-file pipeline (process_pdf) and the *)
(* batch loop (process_pdf_batch).                                         *)
(***************************************************************************)
EXTENDS Integers, Sequences, FiniteSets, TLC

\* ---------------------------------------------------------------- bounds
MaxNodes == 4        \* outline nodes in the arena
MaxLevels == 3       \* visible_levels ranges over 0..MaxLevels
StaleCount == 7      \* a /Count value left in the input file by its producer
RecursionLimit == 6  \* interpreter call-depth limit, scaled down
MaxCount == 6        \* cap on a frame's child counter (a looping sibling chain)
MaxFiles == 2        \* files in the batch list

\* The absent reference: `None` of line 128, a missing /First or /Next key.
None == 0

Nodes == 1..MaxNodes

VARIABLES
  \* --- the outline of the open document
  par,             \* the tree the input file encodes: par[n] = parent (0 = /Outlines)
  First,           \* node -> its /First reference, or None
  Next,            \* node -> its /Next reference, or None
  rootFirst,       \* pdf.Root.Outlines.First
  bad,             \* references that resolve to a non-dictionary object
  stale,           \* nodes whose /Count was already present in the input
  Count,           \* node -> <<>> (no /Count key) or <<v>> (/Count = v)
  visible_levels,  \* the visible_levels argument
  \* --- process_bookmarks / collapse_child_bookmarks control state
  stack,           \* active collapse_child_bookmarks frames, outermost first
  pbpc,            \* position in process_bookmarks
  current,         \* process_bookmarks' loop variable
  warned,          \* the handler of line 171 ran
  pass,            \* how many times process_bookmarks has been started
  snapCount,       \* Count as the first run left it
  \* --- process_pdf_batch
  bpc,             \* position in process_pdf_batch
  numFiles,        \* len(pdf_files)
  idx,             \* files the loop has finished
  success_count, failed_count,
  outcomes,        \* the per-file result lines printed so far (TRUE = saved)
  report_data,     \* files with a before/after entry
  \* --- process_pdf / remove_metadata, for the file being processed
  ppc,             \* position in process_pdf
  phase,           \* 1 = the input document, 2 = the re-opened output
  rmpc,            \* next sub-step of remove_metadata
  ret,             \* process_pdf's return value
  handles,         \* the two Pdf handles: "none", "open" or "closed"
  doc,             \* metadata of the document in memory, by who wrote it
  outFile,         \* metadata of the file at output_path
  inMeta,          \* metadata of the input file
  injected,        \* the saves at which the writer added metadata of its own
  rmRan,           \* sub-steps the current remove_metadata call has run
  rmFailed,        \* sub-steps of the current call that raised
  raisedBy         \* the step whose exception reached line 278

outlineVars == <<par, First, Next, rootFirst, bad, stale, Count, visible_levels,
                 stack, pbpc, current, warned, pass, snapCount>>
batchVars == <<bpc, numFiles, idx, success_count, failed_count, outcomes,
               report_data, ppc, phase, rmpc, ret, handles, doc, outFile, inMeta,
               injected, rmRan, rmFailed, raisedBy>>
vars == <<outlineVars, batchVars>>

\* ------------------------------------------------------- outline: inputs

\* Every rooted forest on Nodes: a node's parent has a smaller index (0 is the
\* /Outlines dictionary), siblings are chained in index order.
ParentVectors == {p \in [Nodes -> 0..(MaxNodes - 1)] : \A n \in Nodes : p[n] < n}

ChildrenOf(p, n) == {m \in Nodes : p[m] = n}

Min(S) == CHOOSE x \in S : \A y \in S : x <= y

FirstOf(p) == [n \in Nodes |->
                 IF ChildrenOf(p, n) = {} THEN None ELSE Min(ChildrenOf(p, n))]

NextOf(p) == [n \in Nodes |->
                LET later == {m \in Nodes : p[m] = p[n] /\ m > n}
                IN  IF later = {} THEN None ELSE Min(later)]

RootFirstOf(p) == IF ChildrenOf(p, 0) = {} THEN None ELSE Min(ChildrenOf(p, 0))

InitialCount(st) == [n \in Nodes |-> IF n \in st THEN <<StaleCount>> ELSE <<>>]

\* ------------------------------------- collapse_child_bookmarks (109-143)

Frame(item, level) ==
  [item |-> item, level |-> level, child |-> None, count |-> 0, pc |-> "enter"]

Top == stack[Len(stack)]
Pop == SubSeq(stack, 1, Len(stack) - 1)
SetTop(f) == [stack EXCEPT ![Len(stack)] = f]

\* Lines 132-140: the sign decision.
CollapsedWrongCompare(level, vis) == vis # 0 /\ level > vis
CollapsedBelowTop(level, vis) == vis # 0 /\ level >= vis /\ level > 1
Collapsed(level, vis) == vis # 0 /\ level >= vis

SignedCountOffByOne(level, vis, count) ==
  IF Collapsed(level, vis) THEN -(count - 1) ELSE count - 1
SignedCount(level, vis, count) ==
  IF Collapsed(level, vis) THEN -count ELSE count

\* Lines 131-140: `outline_item.Count = ...`, only when count > 0.
AssignCountToggle(cnt, item, level, vis, count) ==
  IF count > 0
  THEN [cnt EXCEPT ![item] =
          IF cnt[item] = <<>> THEN <<SignedCount(level, vis, count)>>
          ELSE <<-cnt[item][1]>>]
  ELSE cnt
AssignCount(cnt, item, level, vis, count) ==
  IF count > 0
  THEN [cnt EXCEPT ![item] = <<SignedCount(level, vis, count)>>]
  ELSE cnt

\* Line 120: `'/First' in outline_item`; a non-dictionary raises, and the
\* handler of line 141 returns.  Lines 122-123 set up the loop.
CCB_Enter ==
  /\ stack # <<>> /\ Top.pc = "enter"
  /\ stack' = IF Top.item \in bad THEN Pop
              ELSE IF First[Top.item] = None THEN Pop
              ELSE SetTop([Top EXCEPT !.child = First[Top.item],
                                      !.count = 0, !.pc = "while"])
  /\ UNCHANGED <<par, First, Next, rootFirst, bad, stale, Count, visible_levels,
                 pbpc, current, warned, pass, snapCount>>
  /\ UNCHANGED batchVars

\* Lines 124-127: the loop test, `count += 1`, and the recursive call.  A call
\* beyond the interpreter's depth limit raises RecursionError in the caller,
\* whose handler (line 141) returns.
CCB_While ==
  /\ stack # <<>> /\ Top.pc = "while"
  /\ (Top.child = None \/ Top.count < MaxCount)
  /\ stack' =
       IF Top.child = None THEN SetTop([Top EXCEPT !.pc = "assign"])
       ELSE IF Len(stack) >= RecursionLimit THEN Pop
       ELSE Append(SetTop([Top EXCEPT !.count = @ + 1, !.pc = "next"]),
                   Frame(Top.child, Top.level + 1))
  /\ UNCHANGED <<par, First, Next, rootFirst, bad, stale, Count, visible_levels,
                 pbpc, current, warned, pass, snapCount>>
  /\ UNCHANGED batchVars

\* Line 128: `child = child.Next if '/Next' in child else None`; the membership
\* test on a non-dictionary raises, and the handler of line 141 returns.
CCB_Next ==
  /\ stack # <<>> /\ Top.pc = "next"
  /\ stack' = IF Top.child \in bad THEN Pop
              ELSE SetTop([Top EXCEPT !.child = Next[Top.child], !.pc = "while"])
  /\ UNCHANGED <<par, First, Next, rootFirst, bad, stale, Count, visible_levels,
                 pbpc, current, warned, pass, snapCount>>
  /\ UNCHANGED batchVars

\* Lines 131-140, then the return.
CCB_Assign ==
  /\ stack # <<>> /\ Top.pc = "assign"
  /\ Count' = AssignCount(Count, Top.item, Top.level, visible_levels, Top.count)
  /\ stack' = Pop
  /\ UNCHANGED <<par, First, Next, rootFirst, bad, stale, visible_levels,
                 pbpc, current, warned, pass, snapCount>>
  /\ UNCHANGED batchVars

\* ------------------------------------------- process_bookmarks (145-174)

\* Lines 158-163.
PB_Start ==
  /\ pbpc = "start"
  /\ current' = rootFirst
  /\ pbpc' = IF rootFirst = None THEN "done" ELSE "while"
  /\ UNCHANGED <<par, First, Next, rootFirst, bad, stale, Count, visible_levels,
                 stack, warned, pass, snapCount>>
  /\ UNCHANGED batchVars

\* Lines 164-166: `while current:` and the call at level 1.
PB_While ==
  /\ pbpc = "while"
  /\ stack' = <<Frame(current, 1)>>
  /\ pbpc' = "call"
  /\ UNCHANGED <<par, First, Next, rootFirst, bad, stale, Count, visible_levels,
                 current, warned, pass, snapCount>>
  /\ UNCHANGED batchVars

\* Lines 167-174: `'/Next' in current` after the call has returned; on a
\* non-dictionary it raises into the handler of line 171.
PB_Advance ==
  /\ pbpc = "call" /\ stack = <<>>
  /\ IF current \in bad
     THEN /\ warned' = TRUE
          /\ pbpc' = "done"
          /\ UNCHANGED current
     ELSE IF Next[current] # None
     THEN /\ current' = Next[current]
          /\ pbpc' = "while"
          /\ UNCHANGED warned
     ELSE /\ pbpc' = "done"
          /\ UNCHANGED <<current, warned>>
  /\ UNCHANGED <<par, First, Next, rootFirst, bad, stale, Count, visible_levels,
                 stack, pass, snapCount>>
  /\ UNCHANGED batchVars

\* process_bookmarks run a second time on the document the first run left.
PB_Again ==
  /\ pbpc = "done" /\ pass = 1
  /\ pass' = 2
  /\ snapCount' = Count
  /\ pbpc' = "start"
  /\ warned' = FALSE
  /\ UNCHANGED <<par, First, Next, rootFirst, bad, stale, Count, visible_levels,
                 stack, current>>
  /\ UNCHANGED batchVars

OutlineNext ==
  \/ CCB_Enter \/ CCB_While \/ CCB_Next \/ CCB_Assign
  \/ PB_Start \/ PB_While \/ PB_Advance \/ PB_Again

\* ----------------------------------------------------------- idle halves

NoMeta == [Metadata |-> {}, Info |-> {}]

FileIdle ==
  /\ ppc = "idle" /\ phase = 1 /\ rmpc = "idle" /\ ret = "none"
  /\ handles = <<"none", "none">>
  /\ doc = NoMeta /\ outFile = NoMeta /\ inMeta = NoMeta
  /\ injected = {} /\ rmRan = {} /\ rmFailed = {} /\ raisedBy = "none"

BatchIdle ==
  /\ bpc = "idle" /\ numFiles = 0 /\ idx = 0
  /\ success_count = 0 /\ failed_count = 0
  /\ outcomes = <<>> /\ report_data = {}
  /\ FileIdle

OutlineControlInit ==
  /\ stack = <<>> /\ pbpc = "start" /\ current = None /\ warned = FALSE
  /\ pass = 1

\* ------------------------------------------------- outline specifications

\* Well-formed outlines: a forest, every reference a dictionary; some nodes may
\* carry a /Count written by the file's producer.
InitTree ==
  /\ par \in ParentVectors
  /\ First = FirstOf(par) /\ Next = NextOf(par) /\ rootFirst = RootFirstOf(par)
  /\ bad = {}
  /\ stale \in SUBSET Nodes
  /\ Count = InitialCount(stale)
  /\ snapCount = Count
  /\ visible_levels \in 0..MaxLevels
  /\ OutlineControlInit
  /\ BatchIdle

Spec == InitTree /\ [][OutlineNext]_vars

\* ------------------------------------------- claims on well-formed trees

\* The tree the input encodes, read off par (not off the walk).
RECURSIVE Depth(_)
Depth(n) == IF par[n] = 0 THEN 1 ELSE 1 + Depth(par[n])

NumChildren(n) == Cardinality(ChildrenOf(par, n))

Parents == {n \in Nodes : NumChildren(n) > 0}

Finished == pbpc = "done"

Expanded(n) == visible_levels = 0 \/ Depth(n) < visible_levels

\* C1: after process_bookmarks on a well-formed tree, a node at depth d with
\* k > 0 children has /Count = k when visible_levels = 0 or d < visible_levels
\* and /Count = -k otherwise, whatever sign its parent received.
C1_DepthPolicy ==
  Finished =>
    \A n \in Parents :
      Count[n] = <<IF Expanded(n) THEN NumChildren(n) ELSE -NumChildren(n)>>

\* A finished walk with visible_levels >= 2 that left a collapsed parent (at
\* depth >= 2) below an expanded one.
C1_Witness ==
  /\ Finished /\ visible_levels >= 2
  /\ \E n, m \in Parents :
       /\ par[m] = n /\ Depth(m) >= visible_levels
       /\ Count[n] = <<NumChildren(n)>> /\ Count[m] = <<-NumChildren(m)>>

\* C2 as stated: with visible_levels = 1 every top-level node with children
\* ends with a positive /Count and every deeper one with a negative /Count.
C2_TopLevelShowsChildren ==
  (Finished /\ visible_levels = 1) =>
    \A n \in Parents :
      /\ Count[n] # <<>>
      /\ (Depth(n) = 1 => Count[n][1] > 0)
      /\ (Depth(n) >= 2 => Count[n][1] < 0)

\* C2 amended: with visible_levels = 1 every node with children, the
\* top-level ones included, ends with /Count = -k (only the top-level
\* bookmarks themselves stay visible).
C2_OnlyTopLevelVisible ==
  (Finished /\ visible_levels = 1) =>
    \A n \in Parents : Count[n] # <<>> /\ Count[n][1] = -NumChildren(n)

\* A finished walk with visible_levels = 1 over a tree with a top-level parent
\* and a deeper parent.
C2_Witness ==
  /\ Finished /\ visible_levels = 1
  /\ \E n, m \in Parents :
       /\ Depth(n) = 1 /\ Depth(m) >= 2
       /\ Count[n] = <<-NumChildren(n)>> /\ Count[m] = <<-NumChildren(m)>>

Abs(x) == IF x < 0 THEN -x ELSE x

Magnitude(c) == IF c = <<>> THEN 0 ELSE Abs(c[1])

\* C3 as stated: after process_bookmarks, also on a tree whose nodes carried
\* stale /Count values, every node has |Count| equal to its number of direct
\* children, and a childless node's /Count was not written.
C3_CountInvariantAllNodes ==
  Finished =>
    \A n \in Nodes :
      /\ Magnitude(Count[n]) = NumChildren(n)
      /\ (NumChildren(n) = 0 => Count[n] = InitialCount(stale)[n])

\* C3 amended: every node with k > 0 children ends with |Count| = k; a
\* childless node's /Count is never written, so a stale value stays on it.
C3_CountInvariantParents ==
  Finished =>
    \A n \in Nodes :
      /\ (NumChildren(n) > 0 => Count[n] # <<>> /\ Magnitude(Count[n]) = NumChildren(n))
      /\ (NumChildren(n) = 0 => Count[n] = InitialCount(stale)[n])

\* A finished walk that overwrote a stale /Count on a parent and kept one on a
\* leaf.
C3_Witness ==
  /\ Finished
  /\ \E n, m \in stale :
       /\ NumChildren(n) > 0 /\ Count[n] # <<StaleCount>>
       /\ NumChildren(m) = 0 /\ Count[m] = <<StaleCount>>

\* C7: a second process_bookmarks run leaves every node's /Count (presence,
\* sign and magnitude) as the first run left it.
C7_Idempotent ==
  (Finished /\ pass = 2) => Count = snapCount

\* A second run has finished on a tree where the first run wrote a /Count.
C7_Witness ==
  /\ Finished /\ pass = 2
  /\ \E n \in Nodes : snapCount[n] # InitialCount(stale)[n]

\* ------------------------------------------------------ malformed outlines

\* A malformed outline: the forest of par with one defect, either a reference
\* that resolves to a non-dictionary object (a node in bad), or one /First or
\* one /Next reference redirected to another node (a back-reference to an
\* ancestor, a sibling chain that loops).
InitMalformed ==
  /\ par \in ParentVectors
  /\ rootFirst = RootFirstOf(par)
  /\ \/ /\ \E b \in Nodes : bad = {b}
        /\ First = FirstOf(par) /\ Next = NextOf(par)
     \/ /\ bad = {}
        /\ \E m, t \in Nodes :
             /\ FirstOf(par)[m] # t
             /\ First = [FirstOf(par) EXCEPT ![m] = t]
        /\ Next = NextOf(par)
     \/ /\ bad = {}
        /\ First = FirstOf(par)
        /\ \E m, t \in Nodes :
             /\ NextOf(par)[m] # t
             /\ Next = [NextOf(par) EXCEPT ![m] = t]
  /\ stale = {}
  /\ Count = InitialCount(stale)
  /\ snapCount = Count
  /\ visible_levels \in 0..MaxLevels
  /\ OutlineControlInit
  /\ BatchIdle

SpecMalformed == InitMalformed /\ [][OutlineNext]_vars

\* The interpreter keeps running the walk while it has a step to take.
SpecMalformedFair == SpecMalformed /\ WF_vars(OutlineNext)

\* Some frame's child counter has reached the model's cap.
CountCapped == \E i \in 1..Len(stack) : stack[i].count >= MaxCount

\* C4: process_bookmarks terminates on every outline graph, including one with
\* a /First back-reference to an ancestor or a sibling chain that loops.
C4_Terminates == <>(Finished \/ CountCapped)

RECURSIVE Ancestors(_)
Ancestors(n) == IF par[n] = 0 THEN {} ELSE {par[n]} \cup Ancestors(par[n])

Siblings(n) == {m \in Nodes : m # n /\ par[m] = par[n]}

\* C8: when reading one node fails, the nodes with children among its siblings
\* and its ancestors (its parent included) still get their /Count assigned.
C8_NodeErrorIsolated ==
  (Finished /\ First = FirstOf(par) /\ Next = NextOf(par)) =>
    \A b \in bad :
      \A n \in (Ancestors(b) \cup Siblings(b)) \ bad :
        NumChildren(n) > 0 => Count[n] # <<>>

\* ------------------------------------------------ remove_metadata (176-207)

RmSteps == {"catalog", "xmp", "trailer", "docinfo"}

\* Lines 181-182: `del pdf.Root.Metadata`.
DeleteCatalogMetadataNoop(d) == d
DeleteCatalogMetadata(d) == [d EXCEPT !.Metadata = {}]

\* Lines 186-192: every key of the XMP property set deleted.
DeleteXmpKeys(d) == [d EXCEPT !.Metadata = {}]

\* Lines 202-207: every key of docinfo deleted.
DeleteDocinfoKeys(d) == [d EXCEPT !.Info = {}]

\* Lines 197-198: `del pdf.trailer['/Info']`.
DeleteTrailerInfo(d) == [d EXCEPT !.Info = {}]

\* Lines 278-279: the handler of process_pdf turns the exception of `step`
\* into the return value (False, str(e)).
Caught(step) ==
  /\ raisedBy' = step
  /\ ret' = "fail"
  /\ ppc' = "return"
  /\ rmpc' = "idle"

\* Lines 180-182, outside any try: an exception leaves remove_metadata.
RM_Catalog ==
  /\ ppc = "scrub" /\ rmpc = "catalog"
  /\ rmRan' = rmRan \cup {"catalog"}
  /\ \E raises \in BOOLEAN :
       IF raises
       THEN /\ Caught("catalog")
            /\ rmFailed' = rmFailed \cup {"catalog"}
            /\ UNCHANGED doc
       ELSE /\ doc' = DeleteCatalogMetadata(doc)
            /\ rmpc' = "xmp"
            /\ UNCHANGED <<rmFailed, raisedBy, ret, ppc>>
  /\ UNCHANGED <<bpc, numFiles, idx, success_count, failed_count, outcomes,
                 report_data, phase, handles, outFile, inMeta, injected>>
  /\ UNCHANGED outlineVars

\* Lines 185-194, inside try/except: every XMP key is deleted; an exception
\* is swallowed and leaves the keys that were there.
RM_Xmp ==
  /\ ppc = "scrub" /\ rmpc = "xmp"
  /\ rmRan' = rmRan \cup {"xmp"}
  /\ \E raises \in BOOLEAN :
       IF raises
       THEN rmFailed' = rmFailed \cup {"xmp"} /\ UNCHANGED doc
       ELSE doc' = DeleteXmpKeys(doc) /\ UNCHANGED rmFailed
  /\ rmpc' = "trailer"
  /\ UNCHANGED <<raisedBy, ret, ppc>>
  /\ UNCHANGED <<bpc, numFiles, idx, success_count, failed_count, outcomes,
                 report_data, phase, handles, outFile, inMeta, injected>>
  /\ UNCHANGED outlineVars

\* Lines 197-198, outside any try.
RM_Trailer ==
  /\ ppc = "scrub" /\ rmpc = "trailer"
  /\ rmRan' = rmRan \cup {"trailer"}
  /\ \E raises \in BOOLEAN :
       IF raises
       THEN /\ Caught("trailer")
            /\ rmFailed' = rmFailed \cup {"trailer"}
            /\ UNCHANGED doc
       ELSE /\ doc' = DeleteTrailerInfo(doc)
            /\ rmpc' = "docinfo"
            /\ UNCHANGED <<rmFailed, raisedBy, ret, ppc>>
  /\ UNCHANGED <<bpc, numFiles, idx, success_count, failed_count, outcomes,
                 report_data, phase, handles, outFile, inMeta, injected>>
  /\ UNCHANGED outlineVars

\* Lines 201-207: `pdf.docinfo` and `.keys()` outside any try, the per-key
\* deletions inside one (a key whose deletion raises stays).  Then remove_metadata returns to line 263 / 273.
RM_Docinfo ==
  /\ ppc = "scrub" /\ rmpc = "docinfo"
  /\ rmRan' = rmRan \cup {"docinfo"}
  /\ \E raises \in BOOLEAN :
       IF raises
       THEN /\ Caught("docinfo")
            /\ rmFailed' = rmFailed \cup {"docinfo"}
            /\ UNCHANGED doc
       ELSE /\ \E keyRaises \in BOOLEAN :
                 doc' = IF keyRaises THEN doc ELSE DeleteDocinfoKeys(doc)
            /\ rmpc' = "idle"
            /\ ppc' = "save"
            /\ UNCHANGED <<rmFailed, raisedBy, ret>>
  /\ UNCHANGED <<bpc, numFiles, idx, success_count, failed_count, outcomes,
                 report_data, phase, handles, outFile, inMeta, injected>>
  /\ UNCHANGED outlineVars

\* ---------------------------------------------------- process_pdf (209-279)

SaveName(ph) == IF ph = 1 THEN "save1" ELSE "save2"

\* What pdf.save leaves at output_path: the document's metadata, plus what
\* the writer adds on its own (`where`: nothing, the Info dictionary, or the
\* catalog metadata stream).
Written(d, where, ph) ==
  [Metadata |-> d.Metadata \cup (IF where = "Metadata" THEN {SaveName(ph)} ELSE {}),
   Info     |-> d.Info \cup (IF where = "Info" THEN {SaveName(ph)} ELSE {})]

\* Line 227 (phase 1) and line 267 (phase 2): Pdf.open; the start of the
\* remove_metadata call of line 270.
PP_Open ==
  /\ ppc = "open"
  /\ \E raises \in BOOLEAN :
       IF raises
       THEN /\ Caught("open")
            /\ UNCHANGED <<handles, doc, rmRan, rmFailed>>
       ELSE /\ handles' = [handles EXCEPT ![phase] = "open"]
            /\ doc' = IF phase = 1 THEN inMeta ELSE outFile
            /\ ppc' = IF phase = 1 THEN "normalize" ELSE "scrub"
            /\ rmpc' = IF phase = 1 THEN "idle" ELSE "catalog"
            /\ rmRan' = {} /\ rmFailed' = {}
            /\ UNCHANGED <<raisedBy, ret>>
  /\ UNCHANGED <<bpc, numFiles, idx, success_count, failed_count, outcomes,
                 report_data, phase, outFile, inMeta, injected>>
  /\ UNCHANGED outlineVars

\* Lines 230-257: ViewerPreferences, PageMode, process_bookmarks (which
\* swallows its own exceptions), PageLayout, tag removal; then the start of
\* the remove_metadata call of line 260.
PP_Normalize ==
  /\ ppc = "normalize"
  /\ \E raises \in BOOLEAN :
       IF raises
       THEN Caught("normalize")
       ELSE /\ ppc' = "scrub"
            /\ rmpc' = "catalog"
            /\ UNCHANGED <<raisedBy, ret>>
  /\ UNCHANGED <<bpc, numFiles, idx, success_count, failed_count, outcomes,
                 report_data, phase, handles, doc, outFile, inMeta, injected,
                 rmRan, rmFailed>>
  /\ UNCHANGED outlineVars

\* Lines 263 and 273: pdf.save(output_path, linearize=True).
PP_Save ==
  /\ ppc = "save"
  /\ \E raises \in BOOLEAN :
       IF raises
       THEN /\ Caught("save")
            /\ UNCHANGED <<outFile, injected>>
       ELSE /\ \E where \in {"nothing", "Info", "Metadata"} :
                 /\ outFile' = Written(doc, where, phase)
                 /\ injected' = IF where = "nothing" THEN injected
                                ELSE injected \cup {SaveName(phase)}
            /\ ppc' = "close"
            /\ UNCHANGED <<raisedBy, ret, rmpc>>
  /\ UNCHANGED <<bpc, numFiles, idx, success_count, failed_count, outcomes,
                 report_data, phase, handles, doc, inMeta, rmRan, rmFailed>>
  /\ UNCHANGED outlineVars

\* Lines 264 and 274-276: pdf.close(), then the re-open or the return.
PP_Close ==
  /\ ppc = "close"
  /\ handles' = [handles EXCEPT ![phase] = "closed"]
  /\ IF phase = 1
     THEN /\ phase' = 2
          /\ ppc' = "open"
          /\ UNCHANGED ret
     ELSE /\ ppc' = "return"
          /\ ret' = "ok"
          /\ UNCHANGED phase
  /\ UNCHANGED <<bpc, numFiles, idx, success_count, failed_count, outcomes,
                 report_data, rmpc, doc, outFile, inMeta, injected, rmRan,
                 rmFailed, raisedBy>>
  /\ UNCHANGED outlineVars

\* --------------------------------------------- process_pdf_batch (281-378)

InputMetadata == [Metadata : {{}, {"input"}}, Info : {{}, {"input"}}]

\* Lines 341-362: the tally of one file's result.
TallyDropsFailure(ok, s, f) == IF ok THEN <<s + 1, f>> ELSE <<s, f>>
Tally(ok, s, f) == IF ok THEN <<s + 1, f>> ELSE <<s, f + 1>>

\* Lines 322-339: the loop head; get_pdf_properties (which never raises),
\* output_dir.mkdir (outside any try) and the call of process_pdf.
Batch_NextFile ==
  /\ bpc = "loop"
  /\ IF idx = numFiles
     THEN /\ bpc' = "summary"
          /\ UNCHANGED <<ppc, phase, rmpc, ret, handles, doc, outFile, inMeta,
                         injected, rmRan, rmFailed, raisedBy>>
     ELSE \E mkdirRaises \in BOOLEAN :
            /\ raisedBy' = "none" /\ ret' = "none"
            /\ phase' = 1 /\ rmpc' = "idle"
            /\ handles' = <<"none", "none">>
            /\ doc' = NoMeta /\ outFile' = NoMeta
            /\ injected' = {} /\ rmRan' = {} /\ rmFailed' = {}
            /\ IF mkdirRaises
               THEN bpc' = "crashed" /\ ppc' = "idle" /\ inMeta' = NoMeta
               ELSE bpc' = "process" /\ ppc' = "open" /\ inMeta' \in InputMetadata
  /\ UNCHANGED <<numFiles, idx, success_count, failed_count, outcomes, report_data>>
  /\ UNCHANGED outlineVars

\* Lines 339-363: process_pdf has returned; print the result line and count it.
Batch_Tally ==
  /\ bpc = "process" /\ ppc = "return"
  /\ LET t == Tally(ret = "ok", success_count, failed_count)
     IN  success_count' = t[1] /\ failed_count' = t[2]
  /\ outcomes' = Append(outcomes, ret = "ok")
  /\ report_data' = IF ret = "ok" THEN report_data \cup {idx + 1} ELSE report_data
  /\ idx' = idx + 1
  /\ bpc' = "loop"
  /\ ppc' = "idle"
  /\ UNCHANGED <<numFiles, phase, rmpc, ret, handles, doc, outFile, inMeta,
                 injected, rmRan, rmFailed, raisedBy>>
  /\ UNCHANGED outlineVars

\* Lines 365-378: the report and the printed summary.
Batch_Summary ==
  /\ bpc = "summary"
  /\ bpc' = "exit"
  /\ UNCHANGED <<numFiles, idx, success_count, failed_count, outcomes, report_data,
                 ppc, phase, rmpc, ret, handles, doc, outFile, inMeta, injected,
                 rmRan, rmFailed, raisedBy>>
  /\ UNCHANGED outlineVars

BatchNext ==
  \/ Batch_NextFile \/ Batch_Tally \/ Batch_Summary
  \/ PP_Open \/ PP_Normalize \/ PP_Save \/ PP_Close
  \/ RM_Catalog \/ RM_Xmp \/ RM_Trailer \/ RM_Docinfo

\* Line 316 onwards: a non-empty list of files, nothing processed yet.
InitBatch ==
  /\ par = [n \in Nodes |-> 0]
  /\ First = FirstOf(par) /\ Next = NextOf(par) /\ rootFirst = RootFirstOf(par)
  /\ bad = {} /\ stale = {}
  /\ Count = InitialCount(stale) /\ snapCount = Count
  /\ visible_levels = 1
  /\ stack = <<>> /\ pbpc = "idle" /\ current = None /\ warned = FALSE /\ pass = 1
  /\ bpc = "loop" /\ numFiles \in 1..MaxFiles /\ idx = 0
  /\ success_count = 0 /\ failed_count = 0
  /\ outcomes = <<>> /\ report_data = {}
  /\ FileIdle

SpecBatch == InitBatch /\ [][BatchNext]_vars

\* ------------------------------------------------- claims on the pipeline

Failures == {i \in 1..Len(outcomes) : ~outcomes[i]}
Successes == {i \in 1..Len(outcomes) : outcomes[i]}

\* C5: an exception inside process_pdf becomes a failed result and never
\* aborts the batch; once the loop is over every file of the list has one
\* result, success_count + failed_count is the length of the list and every
\* failed result is in failed_count.
C5_FailureIsolated ==
  /\ (raisedBy # "none" => bpc # "crashed" /\ ret = "fail")
  /\ (bpc \in {"summary", "exit"} =>
        /\ Len(outcomes) = numFiles
        /\ success_count + failed_count = numFiles
        /\ failed_count = Cardinality(Failures)
        /\ success_count = Cardinality(Successes))

\* The batch is over with both a failed and a saved file in the list.
C5_Witness ==
  /\ bpc = "exit"
  /\ Failures # {} /\ Successes # {}

\* C6 as stated: when process_pdf has succeeded, the file at output_path
\* carries no metadata added by the writer, although any save may add some.
C6_NoWriterMetadata ==
  (ppc = "return" /\ ret = "ok") =>
    /\ outFile.Metadata \cap {"save1", "save2"} = {}
    /\ outFile.Info \cap {"save1", "save2"} = {}

\* C6 amended: when process_pdf has succeeded, the file at output_path carries
\* neither the input's metadata nor what the first save added; whatever
\* metadata it carries was added by the final save itself.
C6_OnlyFinalSaveMetadata ==
  (ppc = "return" /\ ret = "ok") =>
    /\ outFile.Metadata \subseteq {"save2"}
    /\ outFile.Info \subseteq {"save2"}

\* process_pdf has succeeded on an input with metadata although the first
\* save added metadata of the writer's.
C6_Witness ==
  /\ ppc = "return" /\ ret = "ok"
  /\ "save1" \in injected
  /\ inMeta.Info # {}
  /\ outFile = NoMeta

\* C9: no exception of a sub-step leaves remove_metadata, and a call in which
\* a sub-step raised has still run all four sub-steps when it is over.
C9_ScrubBestEffort ==
  /\ raisedBy \notin RmSteps
  /\ ((rmpc = "idle" /\ rmFailed # {}) => rmRan = RmSteps)

\* C10: whenever process_pdf has returned, with success or failure, no Pdf
\* handle it opened is still open.
C10_HandlesClosed ==
  ppc = "return" => \A h \in 1..2 : handles[h] # "open"

====
